---- MODULE Spec2Model ----
(***************************************************************************)
(* Model of the App component of the ingestion pipeline front end          *)
(* (App.jsx): the step-progression state machine driven by                 *)
(* requestAnimationFrame, its pause/resume elapsed-time accounting, and    *)
(* the handlers start / pause / resume / reset / handleFile.               *)
(*                                                                         *)
(* Time is performance.now() in whole milliseconds.  JS Numbers are        *)
(* modelled as exact rationals <<numerator, denominator>> in lowest terms  *)
(* (IEEE rounding is not modelled).  React 18 (createRoot) batches the     *)
(* state updates of one handler or one animation-frame callback, so each   *)
(* handler together with the re-render and the effect cleanup/run that     *)
(* follow it is one atomic step.                                           *)
(***************************************************************************)
EXTENDS Integers, Sequences, FiniteSets, TLC

\* ------------------------------------------------------------------ bounds
\* Largest value of performance.now() explored.
MaxNow == 13500

\* Time that may pass between two observable events (ms).
FrameDeltas == {750, 1500}

\* Files the user can pick (0 stands for null: no file).
NumFiles == 1

\* Upload initiations that may be awaiting the backend's response at once.
MaxInflight == 1

\* Files the user can pick, and upload initiations that may be awaiting
\* their response at once, where selections and responses interleave.
UploadFiles == 2
UploadInflight == 2

\* Largest value of performance.now() within one run when frames are the
\* only passage of time (every stage overshoots by less than one frame).
MaxNowLive == 21000

\* Half-width of the windows of default-size part counts explored around
\* 0, S3_MAX_PARTS and 2 * S3_MAX_PARTS.
NearParts == 2

\* ------------------------------------------------------- program constants
STEP_DEFINITIONS ==
    << [key |-> "extract",     durationMs |-> 2000],
       [key |-> "transcribe",  durationMs |-> 3000],
       [key |-> "parse",       durationMs |-> 2000],
       [key |-> "merge",       durationMs |-> 1500],
       [key |-> "screenshots", durationMs |-> 1500],
       [key |-> "excel",       durationMs |-> 1500] >>

\* STEP_DEFINITIONS.length
totalSteps == Len(STEP_DEFINITIONS)

\* STEP_DEFINITIONS[i] with JS 0-based index i
StepAt(i) == STEP_DEFINITIONS[i + 1]

\* ------------------------------------------------------- number arithmetic
Abs(x) == IF x < 0 THEN -x ELSE x

RECURSIVE GCD(_, _)
GCD(a, b) == IF b = 0 THEN a ELSE GCD(b, a % b)

\* The number n/d (d # 0) in lowest terms with a positive denominator.
Rat(n, d) ==
    LET g == GCD(Abs(n), Abs(d))
        s == IF d < 0 THEN -1 ELSE 1
    IN  << (s * n) \div g, (s * d) \div g >>

Num(i) == << i, 1 >>
RatAdd(a, b) == Rat(a[1] * b[2] + b[1] * a[2], a[2] * b[2])
RatMul(a, b) == Rat(a[1] * b[1], a[2] * b[2])
RatDiv(a, b) == Rat(a[1] * b[2], a[2] * b[1])
RatLeq(a, b) == a[1] * b[2] <= b[1] * a[2]
RatLess(a, b) == a[1] * b[2] < b[1] * a[2]
\* Math.min / Math.max
MathMin(a, b) == IF RatLeq(a, b) THEN a ELSE b
MathMax(a, b) == IF RatLeq(a, b) THEN b ELSE a

\* ------------------------------------------------------------------- state
VARIABLES
    file,              \* useState(null): 0 = null, else the picked file
    processing,        \* useState(false)
    paused,            \* useState(false)
    currentStepIndex,  \* useState(-1)
    stepProgress,      \* useState(0): 0..100 for the active step
    timerRef,          \* useRef(null): 0 = null, else the last frame id
    stepStartRef,      \* useRef(0)
    elapsedRef,        \* useRef(0)
    rafQueue,          \* animation frames requested and not yet run/cancelled
    uploadInit,        \* useState(null): 0 = null, else the data for that file
    errorMessage,      \* useState(''): 0 = '', else the failure for that file
    inflight,          \* initiateUpload calls awaiting a response, per file
    now,               \* performance.now()
    query,             \* the last call of a pure function: its inputs and result
    lastOp,            \* history: the last step taken
    preStatus          \* history: the run status before the last step

compVars == << file, processing, paused, currentStepIndex, stepProgress,
               timerRef, stepStartRef, elapsedRef, rafQueue,
               uploadInit, errorMessage >>
vars == << compVars, inflight, now, query, lastOp, preStatus >>

\* The part of the component's state that is the pipeline's.
pipelineState == << processing, paused, currentStepIndex, stepProgress,
                    timerRef, stepStartRef, elapsedRef, rafQueue >>

\* The component's state as one value (what a handler reads and returns).
Cur ==
    [ file |-> file, processing |-> processing, paused |-> paused,
      currentStepIndex |-> currentStepIndex, stepProgress |-> stepProgress,
      timerRef |-> timerRef, stepStartRef |-> stepStartRef,
      elapsedRef |-> elapsedRef, rafQueue |-> rafQueue,
      uploadInit |-> uploadInit, errorMessage |-> errorMessage ]

\* ------------------------------------------------------------ derived views
\* The run status of the specification, read from the flags the code keeps:
\* processing/paused, and currentStepIndex = -1 for "not started".
Status(s) ==
    IF s.processing
    THEN (IF s.paused THEN "Paused" ELSE "Running")
    ELSE (IF s.currentStepIndex = -1 THEN "NotStarted" ELSE "Completed")

\* Variant: each stage weighs as much as its nominal duration.
overallProgress_byDuration(s) ==
    LET RECURSIVE DurationBelow(_)
        DurationBelow(i) ==
            IF i <= 0 THEN 0 ELSE StepAt(i - 1).durationMs + DurationBelow(i - 1)
        total     == DurationBelow(totalSteps)
        idx       == IF s.currentStepIndex > 0 THEN s.currentStepIndex ELSE 0
        activeDur == IF s.currentStepIndex >= 0
                     THEN StepAt(s.currentStepIndex).durationMs ELSE 0
        completedPct == Rat(100 * DurationBelow(idx), total)
        activePct    == RatMul(s.stepProgress, Rat(activeDur, total))
    IN  MathMin(Num(100), MathMax(Num(0), RatAdd(completedPct, activePct)))

\* useMemo overallProgress
overallProgress(s) ==
    LET completedSteps == IF s.currentStepIndex > 0 THEN s.currentStepIndex ELSE 0
        perStepWeight  == Rat(100, totalSteps)
        completedPct   == RatMul(Num(completedSteps), perStepWeight)
        activePct      == RatMul(RatDiv(s.stepProgress, Num(100)), perStepWeight)
    IN  MathMin(Num(100), MathMax(Num(0), RatAdd(completedPct, activePct)))

\* App.stepStatus(index)
stepStatus(s, index) ==
    IF s.currentStepIndex = -1 THEN "idle"
    ELSE IF index < s.currentStepIndex THEN "done"
    ELSE IF index = s.currentStepIndex
         THEN (IF s.processing THEN (IF s.paused THEN "paused" ELSE "active")
               ELSE "done")
    ELSE "pending"

\* Variant: the current step of a run that is not processing reads "pending".
PanelStepStatus_notDone(idx, proc, pau, index) ==
    IF idx = -1 THEN "idle"
    ELSE IF index < idx THEN "done"
    ELSE IF index = idx /\ proc
         THEN (IF pau THEN "paused" ELSE "active")
    ELSE "pending"

\* ProgressPanel's stepStatus(index), over the props it is given
PanelStepStatus(idx, proc, pau, index) ==
    IF idx = -1 THEN "idle"
    ELSE IF index < idx THEN "done"
    ELSE IF index = idx
         THEN (IF proc THEN (IF pau THEN "paused" ELSE "active")
               ELSE "done")
    ELSE "pending"

\* ------------------------------------------------------- animation frames
\* A frame id that no pending frame has (ids of frames that ran or were
\* cancelled are never looked at again: every request overwrites timerRef).
FreshId(q) ==
    CHOOSE i \in 1..(Cardinality(q) + 1) :
        /\ \A f \in q : f.id # i
        /\ \A j \in 1..(i - 1) : \E f \in q : f.id = j

\* timerRef.current = requestAnimationFrame(tick), tick closing over index idx
requestAnimationFrame(s, idx) ==
    LET id == FreshId(s.rafQueue)
    IN  [s EXCEPT !.rafQueue = @ \cup {[id |-> id, idx |-> idx]},
                  !.timerRef = id]

\* Variant: the cancellation has no effect (the frame stays requested).
cancelAnimationFrame_noop(s) == s

\* if (timerRef.current) cancelAnimationFrame(timerRef.current)
cancelAnimationFrame(s) ==
    IF s.timerRef # 0
    THEN [s EXCEPT !.rafQueue = {f \in @ : f.id # s.timerRef}]
    ELSE s

\* ------------------------------------------------------------ the handlers
\* Each handler maps the state it is invoked in (s) and the value of
\* performance.now() (t) to the state it leaves.

\* Variant: start does not capture the stage-start timestamp.
startProcessing_noStamp(s, t) ==
    IF s.file = 0 THEN s
    ELSE [s EXCEPT !.processing = TRUE,
                   !.paused = FALSE,
                   !.currentStepIndex = 0,
                   !.stepProgress = Num(0),
                   !.elapsedRef = 0]

\* Variant: start without the "no file" guard.
startProcessing_noGuard(s, t) ==
    [s EXCEPT !.processing = TRUE,
              !.paused = FALSE,
              !.currentStepIndex = 0,
              !.stepProgress = Num(0),
              !.elapsedRef = 0,
              !.stepStartRef = t]

startProcessing(s, t) ==
    IF s.file = 0 THEN s
    ELSE [s EXCEPT !.processing = TRUE,
                   !.paused = FALSE,
                   !.currentStepIndex = 0,
                   !.stepProgress = Num(0),
                   !.elapsedRef = 0,
                   !.stepStartRef = t]

pause(s, t) == [s EXCEPT !.paused = TRUE]

\* Variant: resume restarts the stage clock instead of rebasing it.
resume_noRebase(s, t) ==
    IF ~s.processing THEN s
    ELSE [s EXCEPT !.paused = FALSE,
                   !.stepStartRef = t]

\* Variant: resume rebases with the wrong sign.
resume_signSlip(s, t) ==
    IF ~s.processing THEN s
    ELSE [s EXCEPT !.paused = FALSE,
                   !.stepStartRef = t + s.elapsedRef]

resume(s, t) ==
    IF ~s.processing THEN s
    ELSE [s EXCEPT !.paused = FALSE,
                   !.stepStartRef = t - s.elapsedRef]

reset(s, t) ==
    cancelAnimationFrame(
        [s EXCEPT !.processing = FALSE,
                  !.paused = FALSE,
                  !.currentStepIndex = -1,
                  !.stepProgress = Num(0),
                  !.elapsedRef = 0,
                  !.stepStartRef = 0,
                  !.errorMessage = 0])

\* handleFile(picked): setFile(picked); reset(); the fire-and-forget
\* initiateUpload(picked) is the request the action HandleFile puts in flight.
handleFile(s, t, picked) == reset([s EXCEPT !.file = picked], t)

\* initiateUpload after its awaits, the backend having answered ok:
\* setUploadInit(data)
initiateUploadOk(s, picked) == [s EXCEPT !.uploadInit = picked]

\* initiateUpload's catch branch (a failed response or a rejected fetch):
\* setUploadInit(null); setErrorMessage(...)
initiateUploadFailed(s, picked) ==
    [s EXCEPT !.uploadInit = 0, !.errorMessage = picked]

\* The alert's close button: setErrorMessage('')
dismissAlert(s) == [s EXCEPT !.errorMessage = 0]

\* The percentage tick computes for a step of the given duration.
TickPct(elapsed, durationMs) ==
    MathMin(Num(100), RatMul(Rat(elapsed, durationMs), Num(100)))

\* Variant: advancing to the next stage leaves stepProgress at 100.
tick_noProgressReset(s, t, f) ==
    LET step    == StepAt(f.idx)
        elapsed == t - s.stepStartRef
        pct     == TickPct(elapsed, step.durationMs)
        s1      == [s EXCEPT !.rafQueue = @ \ {f},
                             !.elapsedRef = elapsed,
                             !.stepProgress = pct]
    IN  IF RatLeq(Num(100), pct)
        THEN IF f.idx + 1 < totalSteps
             THEN [s1 EXCEPT !.currentStepIndex = @ + 1,
                             !.elapsedRef = 0,
                             !.stepStartRef = t]
             ELSE [s1 EXCEPT !.processing = FALSE]
        ELSE requestAnimationFrame(s1, f.idx)

\* Variant: the last stage advances the index too.
tick_pastEnd(s, t, f) ==
    LET step    == StepAt(f.idx)
        elapsed == t - s.stepStartRef
        pct     == TickPct(elapsed, step.durationMs)
        s1      == [s EXCEPT !.rafQueue = @ \ {f},
                             !.elapsedRef = elapsed,
                             !.stepProgress = pct]
    IN  IF RatLeq(Num(100), pct)
        THEN [s1 EXCEPT !.currentStepIndex = @ + 1,
                        !.stepProgress = Num(0),
                        !.elapsedRef = 0,
                        !.stepStartRef = t]
        ELSE requestAnimationFrame(s1, f.idx)

\* Variant: a tick that leaves the stage unfinished requests no next frame.
tick_noRearm(s, t, f) ==
    LET step    == StepAt(f.idx)
        elapsed == t - s.stepStartRef
        pct     == TickPct(elapsed, step.durationMs)
        s1      == [s EXCEPT !.rafQueue = @ \ {f},
                             !.elapsedRef = elapsed,
                             !.stepProgress = pct]
    IN  IF RatLeq(Num(100), pct)
        THEN IF f.idx + 1 < totalSteps
             THEN [s1 EXCEPT !.currentStepIndex = @ + 1,
                             !.stepProgress = Num(0),
                             !.elapsedRef = 0,
                             !.stepStartRef = t]
             ELSE [s1 EXCEPT !.processing = FALSE]
        ELSE s1

\* Variant: the run finishes one stage early.
tick_offByOne(s, t, f) ==
    LET step    == StepAt(f.idx)
        elapsed == t - s.stepStartRef
        pct     == TickPct(elapsed, step.durationMs)
        s1      == [s EXCEPT !.rafQueue = @ \ {f},
                             !.elapsedRef = elapsed,
                             !.stepProgress = pct]
    IN  IF RatLeq(Num(100), pct)
        THEN IF f.idx + 2 < totalSteps
             THEN [s1 EXCEPT !.currentStepIndex = @ + 1,
                             !.stepProgress = Num(0),
                             !.elapsedRef = 0,
                             !.stepStartRef = t]
             ELSE [s1 EXCEPT !.processing = FALSE]
        ELSE requestAnimationFrame(s1, f.idx)

\* The animation callback of frame f; f.idx is the currentStepIndex its
\* closure captured when the effect that created it ran.
tick(s, t, f) ==
    LET step    == StepAt(f.idx)
        elapsed == t - s.stepStartRef
        pct     == TickPct(elapsed, step.durationMs)
        s1      == [s EXCEPT !.rafQueue = @ \ {f},
                             !.elapsedRef = elapsed,
                             !.stepProgress = pct]
    IN  IF RatLeq(Num(100), pct)
        THEN IF f.idx + 1 < totalSteps
             THEN [s1 EXCEPT !.currentStepIndex = @ + 1,
                             !.stepProgress = Num(0),
                             !.elapsedRef = 0,
                             !.stepStartRef = t]
             ELSE [s1 EXCEPT !.processing = FALSE]
        ELSE requestAnimationFrame(s1, f.idx)

\* ------------------------------------------------ the step-progression effect
EffectDeps(s) == << s.processing, s.paused, s.currentStepIndex >>

\* The effect body gets past its two early returns.
EffectArmed(s) ==
    /\ s.processing /\ ~s.paused /\ s.currentStepIndex >= 0
    /\ s.currentStepIndex < totalSteps

\* Variant: the effect returns no cleanup.
useEffect_noCleanup(old, new) ==
    IF EffectDeps(old) = EffectDeps(new) THEN new
    ELSE IF EffectArmed(new)
         THEN requestAnimationFrame(new, new.currentStepIndex)
         ELSE new

\* The render after a handler: when a dependency changed, the previous
\* effect's cleanup runs (if that effect had returned one) and then the
\* effect body runs in the new state.
useEffect(old, new) ==
    IF EffectDeps(old) = EffectDeps(new) THEN new
    ELSE LET cleaned == IF EffectArmed(old) THEN cancelAnimationFrame(new) ELSE new
         IN  IF EffectArmed(cleaned)
             THEN requestAnimationFrame(cleaned, cleaned.currentStepIndex)
             ELSE cleaned

\* ---------------------------------------------------------------- actions
\* A handler's or callback's result s1, computed at time t, is rendered and
\* becomes the next state.
CommitAt(op, s1, t) ==
    \E s2 \in {useEffect(Cur, s1)} :
        /\ file' = s2.file
        /\ processing' = s2.processing
        /\ paused' = s2.paused
        /\ currentStepIndex' = s2.currentStepIndex
        /\ stepProgress' = s2.stepProgress
        /\ timerRef' = s2.timerRef
        /\ stepStartRef' = s2.stepStartRef
        /\ elapsedRef' = s2.elapsedRef
        /\ rafQueue' = s2.rafQueue
        /\ uploadInit' = s2.uploadInit
        /\ errorMessage' = s2.errorMessage
        /\ now' = t
        /\ lastOp' = op
        /\ preStatus' = Status(Cur)
        /\ UNCHANGED query

Commit(op, s1) == CommitAt(op, s1, now)

Start == Commit("start", startProcessing(Cur, now)) /\ UNCHANGED inflight

Pause == Commit("pause", pause(Cur, now)) /\ UNCHANGED inflight

Resume == Commit("resume", resume(Cur, now)) /\ UNCHANGED inflight

Reset == Commit("reset", reset(Cur, now)) /\ UNCHANGED inflight

InflightCount == Cardinality({<<f, k>> \in (1..NumFiles) \X (1..MaxInflight) : k <= inflight[f]})

HandleFile ==
    \E picked \in 1..NumFiles :
        /\ InflightCount < MaxInflight
        /\ Commit("handleFile", handleFile(Cur, now, picked))
        /\ inflight' = [inflight EXCEPT ![picked] = @ + 1]

Tick == \E f \in rafQueue : Commit("tick", tick(Cur, now, f)) /\ UNCHANGED inflight

UploadOk ==
    \E picked \in 1..NumFiles :
        /\ inflight[picked] > 0
        /\ Commit("uploadOk", initiateUploadOk(Cur, picked))
        /\ inflight' = [inflight EXCEPT ![picked] = @ - 1]

UploadFailed ==
    \E picked \in 1..NumFiles :
        /\ inflight[picked] > 0
        /\ Commit("uploadFailed", initiateUploadFailed(Cur, picked))
        /\ inflight' = [inflight EXCEPT ![picked] = @ - 1]

DismissAlert ==
    /\ errorMessage # 0
    /\ Commit("dismissAlert", dismissAlert(Cur))
    /\ UNCHANGED inflight

\* Wall-clock time passes.
AdvanceTime ==
    \E d \in FrameDeltas :
        /\ now + d <= MaxNow
        /\ now' = now + d
        /\ lastOp' = "time"
        /\ preStatus' = Status(Cur)
        /\ UNCHANGED << compVars, inflight, query >>

Init ==
    /\ file = 0
    /\ processing = FALSE
    /\ paused = FALSE
    /\ currentStepIndex = -1
    /\ stepProgress = Num(0)
    /\ timerRef = 0
    /\ stepStartRef = 0
    /\ elapsedRef = 0
    /\ rafQueue = {}
    /\ uploadInit = 0
    /\ errorMessage = 0
    /\ inflight = [f \in 1..NumFiles |-> 0]
    /\ now = 0
    /\ query = [fn |-> "none"]
    /\ lastOp = "init"
    /\ preStatus = "NotStarted"

Next ==
    \/ Start
    \/ Pause
    \/ Resume
    \/ Reset
    \/ HandleFile
    \/ Tick
    \/ UploadOk
    \/ UploadFailed
    \/ DismissAlert
    \/ AdvanceTime

Spec == Init /\ [][Next]_vars

\* ------------------------------------------------- the handlers behind buttons
\* The four handlers invoked only by a click on a button that is not disabled.

\* Run Pipeline: disabled={!file || processing}
StartUI == file # 0 /\ ~processing /\ Start

\* Variant: the Pause button is never disabled.
PauseUI_alwaysEnabled == Pause

\* Pause: disabled={!processing || paused}
PauseUI == processing /\ ~paused /\ Pause

\* Resume: disabled={!processing || !paused}
ResumeUI == processing /\ paused /\ Resume

\* Reset: disabled={!file && !processing && currentStepIndex === -1}
ResetUI == (file # 0 \/ processing \/ currentStepIndex # -1) /\ Reset

NextUI ==
    \/ StartUI
    \/ PauseUI
    \/ ResumeUI
    \/ ResetUI
    \/ HandleFile
    \/ Tick
    \/ UploadOk
    \/ UploadFailed
    \/ DismissAlert
    \/ AdvanceTime

SpecUI == Init /\ [][NextUI]_vars

\* ------------------------------- file selections and upload-initiation responses
\* Several files, several initiations in flight; the run is started, paused,
\* resumed and reset meanwhile (no frame runs: the clock stands still).
InitUpload ==
    /\ file = 0
    /\ processing = FALSE
    /\ paused = FALSE
    /\ currentStepIndex = -1
    /\ stepProgress = Num(0)
    /\ timerRef = 0
    /\ stepStartRef = 0
    /\ elapsedRef = 0
    /\ rafQueue = {}
    /\ uploadInit = 0
    /\ errorMessage = 0
    /\ inflight = [f \in 1..UploadFiles |-> 0]
    /\ now = 0
    /\ query = [fn |-> "none"]
    /\ lastOp = "init"
    /\ preStatus = "NotStarted"

RECURSIVE InflightUpTo(_)
InflightUpTo(n) == IF n = 0 THEN 0 ELSE inflight[n] + InflightUpTo(n - 1)

\* handleFile(picked): the state is reset and initiateUpload(picked) starts
\* its request, fire-and-forget.
SelectFile ==
    \E picked \in 1..UploadFiles :
        /\ InflightUpTo(UploadFiles) < UploadInflight
        /\ Commit("handleFile", handleFile(Cur, now, picked))
        /\ inflight' = [inflight EXCEPT ![picked] = @ + 1]

\* The response to some pending initiateUpload(picked) arrives, ok.
ResponseOk ==
    \E picked \in 1..UploadFiles :
        /\ inflight[picked] > 0
        /\ Commit("uploadOk", initiateUploadOk(Cur, picked))
        /\ inflight' = [inflight EXCEPT ![picked] = @ - 1]

\* The response to some pending initiateUpload(picked) arrives, failed.
ResponseFailed ==
    \E picked \in 1..UploadFiles :
        /\ inflight[picked] > 0
        /\ Commit("uploadFailed", initiateUploadFailed(Cur, picked))
        /\ inflight' = [inflight EXCEPT ![picked] = @ - 1]

NextUpload ==
    \/ SelectFile
    \/ ResponseOk
    \/ ResponseFailed
    \/ DismissAlert
    \/ StartUI
    \/ PauseUI
    \/ ResumeUI
    \/ ResetUI

SpecUpload == InitUpload /\ [][NextUpload]_vars

\* ------------------------------------------------ runs under fair scheduling
\* The browser runs a requested animation frame at the next repaint: time
\* has passed when the callback reads performance.now().
Frame ==
    \E d \in FrameDeltas :
        \E f \in rafQueue :
            /\ now + d <= MaxNowLive
            /\ \E s1 \in {tick(Cur, now + d, f)} : CommitAt("tick", s1, now + d)
            /\ UNCHANGED inflight

\* start(), with the origin of performance.now() moved to the instant of the
\* call: the code reads the clock only through differences with
\* stepStartRef, which start() sets to that instant.
StartLive == CommitAt("start", startProcessing(Cur, 0), 0) /\ UNCHANGED inflight

\* A file is picked before the run (none is picked once a run has started).
HandleFileLive == Status(Cur) = "NotStarted" /\ HandleFile

\* resume() of a paused run
ResumePaused == processing /\ paused /\ Resume

NextLive ==
    \/ HandleFileLive
    \/ StartLive
    \/ Pause
    \/ Resume
    \/ Frame
    \/ UploadOk
    \/ UploadFailed
    \/ DismissAlert

\* Every frame requested infinitely often eventually runs, and every paused
\* run is eventually resumed.
SpecLive ==
    /\ Init
    /\ [][NextLive]_vars
    /\ SF_vars(Frame)
    /\ WF_vars(ResumePaused)

\* ------------------------------------------- stepStatus as a pure function
\* Both stepStatus implementations applied to any props: every combination
\* of currentStepIndex, processing and paused, and every step index.
InitStatus ==
    /\ file = 0
    /\ processing \in BOOLEAN
    /\ paused \in BOOLEAN
    /\ currentStepIndex \in -1..(totalSteps - 1)
    /\ stepProgress = Num(0)
    /\ timerRef = 0
    /\ stepStartRef = 0
    /\ elapsedRef = 0
    /\ rafQueue = {}
    /\ uploadInit = 0
    /\ errorMessage = 0
    /\ inflight = [f \in 1..NumFiles |-> 0]
    /\ now = 0
    /\ query = [fn |-> "none"]
    /\ lastOp = "init"
    /\ preStatus = "NotStarted"

QueryStepStatus ==
    \E index \in 0..(totalSteps - 1) :
        /\ query' = [fn |-> "stepStatus", index |-> index,
                     app |-> stepStatus(Cur, index),
                     panel |-> PanelStepStatus(currentStepIndex, processing,
                                               paused, index)]
        /\ lastOp' = "stepStatus"
        /\ preStatus' = Status(Cur)
        /\ UNCHANGED << compVars, inflight, now >>

NextStatus == QueryStepStatus

SpecStatus == InitStatus /\ [][NextStatus]_vars

\* --------------------------------------------------------- the part planner
\* File sizes exceed the 32-bit integers of the model checker (20000 parts
\* of 8 MiB are about 1.7e11 bytes), so a size is kept as the sequence of its
\* decimal digits, most significant first, without leading zeros (0 is <<>>).
\* Part sizes and part counts stay below 2^31 / 10 and are integers.
RECURSIVE BigOfInt(_)
BigOfInt(n) == IF n = 0 THEN << >> ELSE Append(BigOfInt(n \div 10), n % 10)

\* a * m + c, for a size a and integers m >= 1, c >= 0
RECURSIVE BigMulAdd(_, _, _)
BigMulAdd(a, m, c) ==
    IF a = << >> THEN BigOfInt(c)
    ELSE LET x == a[Len(a)] * m + c
         IN  Append(BigMulAdd(SubSeq(a, 1, Len(a) - 1), m, x \div 10), x % 10)

\* Quotient and remainder of a size a by an integer d >= 1
RECURSIVE BigDivMod(_, _)
BigDivMod(a, d) ==
    IF a = << >> THEN [q |-> 0, r |-> 0]
    ELSE LET p == BigDivMod(SubSeq(a, 1, Len(a) - 1), d)
             x == p.r * 10 + a[Len(a)]
         IN  [q |-> p.q * 10 + (x \div d), r |-> x % d]

\* a <= b for sizes
BigLeq(a, b) ==
    \/ Len(a) < Len(b)
    \/ /\ Len(a) = Len(b)
       /\ \/ a = b
          \/ \E i \in 1..Len(a) :
                /\ a[i] < b[i]
                /\ \A j \in 1..(i - 1) : a[j] = b[j]

\* Math.ceil(sizeBytes / d).  The double quotient is exact when d is a power
\* of two, and for the other divisors used it is far from the next integer
\* compared with the spacing of doubles at the sizes explored.
MathCeilDiv(sizeBytes, d) ==
    LET p == BigDivMod(sizeBytes, d) IN IF p.r > 0 THEN p.q + 1 ELSE p.q

S3_MAX_PARTS == 10000

\* 8 * 1024 * 1024
DefaultPartSize == 8388608

\* Variant: the regrown part size is rounded down.
computePartCountPlan_floorPartSize(sizeBytes) ==
    LET partSize0 == DefaultPartSize
        count0    == MathCeilDiv(sizeBytes, partSize0)
    IN  IF count0 > S3_MAX_PARTS
        THEN LET partSize == BigDivMod(sizeBytes, S3_MAX_PARTS).q
             IN  [partSize |-> partSize, count |-> MathCeilDiv(sizeBytes, partSize)]
        ELSE [partSize |-> partSize0, count |-> count0]

\* Variant: the part count under the regrown part size is rounded down.
computePartCountPlan_floorCount(sizeBytes) ==
    LET partSize0 == DefaultPartSize
        count0    == MathCeilDiv(sizeBytes, partSize0)
    IN  IF count0 > S3_MAX_PARTS
        THEN LET partSize == MathCeilDiv(sizeBytes, S3_MAX_PARTS)
             IN  [partSize |-> partSize, count |-> BigDivMod(sizeBytes, partSize).q]
        ELSE [partSize |-> partSize0, count |-> count0]

\* The locals partSize and count of computePartCount(sizeBytes) at its return
computePartCountPlan(sizeBytes) ==
    LET partSize0 == DefaultPartSize
        count0    == MathCeilDiv(sizeBytes, partSize0)
    IN  IF count0 > S3_MAX_PARTS
        THEN LET partSize == MathCeilDiv(sizeBytes, S3_MAX_PARTS)
             IN  [partSize |-> partSize, count |-> MathCeilDiv(sizeBytes, partSize)]
        ELSE [partSize |-> partSize0, count |-> count0]

\* computePartCount(sizeBytes): return count
computePartCount(sizeBytes) == computePartCountPlan(sizeBytes).count

\* The file sizes explored: k default-size parts plus r bytes.
PartCounts ==
    (0..NearParts)
    \cup ((S3_MAX_PARTS - NearParts)..(S3_MAX_PARTS + NearParts))
    \cup ((2 * S3_MAX_PARTS - NearParts)..(2 * S3_MAX_PARTS + NearParts))
    \cup {12345, 25000}

ExtraBytes == {0, 1, 1024, 4194304, DefaultPartSize - 1}

FileSizes ==
    { IF k = 0 THEN BigOfInt(r) ELSE BigMulAdd(BigOfInt(DefaultPartSize), k, r) :
          k \in PartCounts, r \in ExtraBytes }

InitPlan ==
    /\ file = 0
    /\ processing = FALSE
    /\ paused = FALSE
    /\ currentStepIndex = -1
    /\ stepProgress = Num(0)
    /\ timerRef = 0
    /\ stepStartRef = 0
    /\ elapsedRef = 0
    /\ rafQueue = {}
    /\ uploadInit = 0
    /\ errorMessage = 0
    /\ inflight = [f \in 1..NumFiles |-> 0]
    /\ now = 0
    /\ \E size \in FileSizes : query = [fn |-> "args", sizeBytes |-> size]
    /\ lastOp = "init"
    /\ preStatus = "NotStarted"

\* const partCount = computePartCount(pickedFile.size)
ComputePartCount ==
    /\ query.fn = "args"
    /\ query' = [fn |-> "computePartCount", sizeBytes |-> query.sizeBytes,
                 count |-> computePartCount(query.sizeBytes),
                 partSize |-> computePartCountPlan(query.sizeBytes).partSize]
    /\ lastOp' = "computePartCount"
    /\ preStatus' = Status(Cur)
    /\ UNCHANGED << compVars, inflight, now >>

NextPlan == ComputePartCount

SpecPlan == InitPlan /\ [][NextPlan]_vars

\* ------------------------------------------------------------------ claims
StatusNow == Status(Cur)
OverallNow == overallProgress(Cur)

\* The component's state after a step, and its status and overall progress.
CurNext ==
    [ file |-> file', processing |-> processing', paused |-> paused',
      currentStepIndex |-> currentStepIndex', stepProgress |-> stepProgress',
      timerRef |-> timerRef', stepStartRef |-> stepStartRef',
      elapsedRef |-> elapsedRef', rafQueue |-> rafQueue',
      uploadInit |-> uploadInit', errorMessage |-> errorMessage' ]
StatusNext == Status(CurNext)
OverallNext == overallProgress(CurNext)

\* C1: reset() in any state, and likewise a file selection, leaves
\* status NotStarted, currentStepIndex -1, stepProgress 0 and elapsed 0 with
\* no animation frame pending; and no frame is pending in any NotStarted
\* state, so no tick runs until the next start().
C1_ResetYieldsNotStarted ==
    /\ lastOp \in {"reset", "handleFile"} =>
          /\ StatusNow = "NotStarted"
          /\ ~processing /\ ~paused
          /\ currentStepIndex = -1
          /\ stepProgress = Num(0)
          /\ elapsedRef = 0
          /\ rafQueue = {}
    /\ StatusNow = "NotStarted" => rafQueue = {}

C1_Witness == lastOp = "reset" /\ preStatus = "Running" /\ now > 0

\* C2: resume continuity.  resume() from Paused keeps the elapsed time E
\* last computed for the stage: the value a tick would sample at the time of
\* the resume, now - stepStartRef, is E and gives the same stepProgress; the
\* index, stepProgress and overallProgress are unchanged by the resume, however
\* long the pause lasted; and a tick that runs at the time of the resume
\* computes elapsed E and the same stepProgress and overallProgress.
C2_ResumeContinuity ==
    [][ /\ (lastOp' = "resume" /\ StatusNow = "Paused") =>
              /\ elapsedRef' = elapsedRef
              /\ now' - stepStartRef' = elapsedRef
              /\ TickPct(now' - stepStartRef',
                         StepAt(currentStepIndex').durationMs) = stepProgress
              /\ currentStepIndex' = currentStepIndex
              /\ stepProgress' = stepProgress
              /\ OverallNext = OverallNow
        /\ (lastOp = "resume" /\ preStatus = "Paused" /\ lastOp' = "tick") =>
              /\ elapsedRef' = elapsedRef
              /\ currentStepIndex' = currentStepIndex
              /\ stepProgress' = stepProgress
              /\ OverallNext = OverallNow
      ]_vars

C2_Witness ==
    /\ lastOp = "resume" /\ preStatus = "Paused"
    /\ elapsedRef > 0 /\ currentStepIndex > 0
    /\ stepStartRef > 0

\* C3: while Paused no animation frame is pending, and no step that begins
\* and ends in Paused (nor pause() itself) changes elapsedRef, stepProgress
\* or currentStepIndex.
C3_PausedFrozen ==
    [][ /\ StatusNext = "Paused" => rafQueue' = {}
        /\ (StatusNext = "Paused" /\ (StatusNow = "Paused" \/ lastOp' = "pause")) =>
              UNCHANGED << elapsedRef, stepProgress, currentStepIndex >>
      ]_vars

C3_Witness ==
    /\ StatusNow = "Paused" /\ lastOp = "time" /\ preStatus = "Paused"
    /\ elapsedRef > 0

\* C4: overallProgress never decreases within one run: every step other
\* than start(), reset() and a file selection leaves it equal or greater.
C4_OverallMonotone ==
    [][ lastOp' \notin {"start", "reset", "handleFile"} =>
            RatLeq(OverallNow, OverallNext) ]_vars

C4_Witness ==
    /\ lastOp = "tick" /\ preStatus = "Running"
    /\ currentStepIndex >= 1 /\ RatLess(Num(0), stepProgress)

\* C5: overallProgress is 100 only when the run is Completed; in
\* NotStarted, Running and Paused it is strictly below 100.
C5_HundredOnlyCompleted ==
    /\ OverallNow = Num(100) => StatusNow = "Completed"
    /\ StatusNow # "Completed" => RatLess(OverallNow, Num(100))

C5_Witness == OverallNow = Num(100) /\ lastOp = "tick"

\* C6: when the run is Completed, currentStepIndex is the last stage and
\* stepProgress is 100.
C6_CompletedAtLastStage ==
    StatusNow = "Completed" =>
        /\ currentStepIndex = totalSteps - 1
        /\ stepProgress = Num(100)

C6_Witness == StatusNow = "Completed" /\ preStatus = "Running"

\* C7: start() with a file selected, from NotStarted, yields Running at
\* stage 0 with stepProgress 0, elapsed 0 and the stage start set to the
\* current time, overallProgress 0, and exactly one tick scheduled.
C7_StartFromNotStarted ==
    (lastOp = "start" /\ preStatus = "NotStarted" /\ file # 0) =>
        /\ StatusNow = "Running"
        /\ currentStepIndex = 0
        /\ stepProgress = Num(0)
        /\ elapsedRef = 0
        /\ stepStartRef = now
        /\ OverallNow = Num(0)
        /\ rafQueue = {[id |-> timerRef, idx |-> 0]}
        /\ timerRef # 0

C7_Witness == lastOp = "start" /\ preStatus = "NotStarted" /\ file # 0 /\ now > 0

\* C8: start() with no file selected changes nothing: the status stays
\* NotStarted and every field of the component's state is unchanged.
C8_StartWithoutFileNoOp ==
    [][ (lastOp' = "start" /\ file = 0) =>
            /\ UNCHANGED compVars
            /\ StatusNext = "NotStarted" ]_vars

C8_Witness == lastOp = "start" /\ file = 0 /\ now > 0

\* C9 (as claimed): pause() outside Running and resume() in NotStarted or
\* Completed leave the whole pipeline state, the flags included, unchanged.
C9_InvalidPauseResumeNoOp ==
    [][ /\ (lastOp' = "pause" /\ StatusNow # "Running") => UNCHANGED pipelineState
        /\ (lastOp' = "resume" /\ StatusNow \in {"NotStarted", "Completed"}) =>
              UNCHANGED pipelineState
      ]_vars

\* C10 (as claimed): start() while Running or Paused does not restart the
\* run: currentStepIndex, stepProgress and the status are unchanged.
C10_StartWhileActiveNoOp ==
    [][ (lastOp' = "start" /\ StatusNow \in {"Running", "Paused"}) =>
            /\ UNCHANGED << currentStepIndex, stepProgress >>
            /\ StatusNext = StatusNow ]_vars

\* The state stepStatus reads, before and after a step.
StatusProps ==
    [currentStepIndex |-> currentStepIndex, processing |-> processing,
     paused |-> paused]
StatusPropsNext ==
    [currentStepIndex |-> currentStepIndex', processing |-> processing',
     paused |-> paused']

\* C11: every stage's status is one of idle, done, active, paused,
\* pending, and within a run (every step but start(), reset() and a file
\* selection) a stage's status changes only pending -> active,
\* active -> done, active -> paused or paused -> active: never pending -> done
\* nor pending -> paused; the stages before the current one are done and
\* those after it pending, so stages become active in stage order.
C11_StageTransitions ==
    [][ /\ \A i \in 0..(totalSteps - 1) :
              stepStatus(StatusPropsNext, i) \in
                  {"idle", "done", "active", "paused", "pending"}
        /\ lastOp' \notin {"start", "reset", "handleFile"} =>
              \A i \in 0..(totalSteps - 1) :
                  \/ stepStatus(StatusPropsNext, i) = stepStatus(StatusProps, i)
                  \/ << stepStatus(StatusProps, i), stepStatus(StatusPropsNext, i) >> \in
                        { << "pending", "active" >>, << "active", "done" >>,
                          << "active", "paused" >>, << "paused", "active" >> }
        /\ currentStepIndex' >= 0 =>
              \A i \in 0..(totalSteps - 1) :
                  /\ i < currentStepIndex' => stepStatus(StatusPropsNext, i) = "done"
                  /\ i > currentStepIndex' => stepStatus(StatusPropsNext, i) = "pending"
      ]_vars

C11_Witness ==
    /\ StatusNow = "Completed" /\ lastOp = "tick"
    /\ \A i \in 0..(totalSteps - 1) : stepStatus(Cur, i) = "done"

\* C12: stepStatus(index) is idle when currentStepIndex is -1, done for
\* an index below the current one, pending for one above it, and for the
\* current one active when Running, paused when Paused and done otherwise;
\* App.stepStatus and ProgressPanel's stepStatus return the same value.
C12_StepStatusTable ==
    query.fn = "stepStatus" =>
        /\ query.app = query.panel
        /\ query.app =
              IF currentStepIndex = -1 THEN "idle"
              ELSE IF query.index < currentStepIndex THEN "done"
              ELSE IF query.index > currentStepIndex THEN "pending"
              ELSE CASE StatusNow = "Running" -> "active"
                     [] StatusNow = "Paused" -> "paused"
                     [] OTHER -> "done"

C12_Witness ==
    /\ query.fn = "stepStatus" /\ query.app = "paused"
    /\ query.index = currentStepIndex

C14_StageProgressMonotone ==
    [][ /\ RatLeq(Num(0), stepProgress') /\ RatLeq(stepProgress', Num(100))
        /\ ( /\ lastOp' \in {"tick", "pause", "resume"}
             /\ currentStepIndex' = currentStepIndex )
           => RatLeq(stepProgress, stepProgress')
      ]_vars

C14_Witness ==
    /\ lastOp = "resume" /\ preStatus = "Running" /\ StatusNow = "Running"
    /\ RatLess(Num(0), stepProgress) /\ RatLess(stepProgress, Num(100))
    /\ stepStartRef = now - elapsedRef

\* C17: overallProgress is
\* min(100, max(0, max(0, index) * (100/N) + (stepProgress/100) * (100/N))):
\* every stage weighs 100/N whatever its duration; with N = 6 it is 100/6 at
\* index 1 with stepProgress 0, and it is 0 at index -1.
C17_OverallFormula ==
    LET idx == IF currentStepIndex > 0 THEN currentStepIndex ELSE 0
    IN  /\ RatMul(OverallNow, Num(totalSteps)) =
              MathMin(Num(100 * totalSteps), MathMax(Num(0),
                  RatAdd(Num(idx * 100), stepProgress)))
        /\ (totalSteps = 6 /\ currentStepIndex = 1 /\ stepProgress = Num(0))
              => OverallNow = << 50, 3 >>
        /\ currentStepIndex = -1 => OverallNow = Num(0)

C17_Witness ==
    /\ currentStepIndex = 1 /\ stepProgress = Num(0) /\ lastOp = "tick"
    /\ OverallNow = << 50, 3 >>

\* C19: at most one animation frame is requested at any time; exactly one
\* while Running; none while NotStarted, Paused or Completed.
C19_OneOutstandingFrame ==
    /\ Cardinality(rafQueue) <= 1
    /\ StatusNow = "Running" => Cardinality(rafQueue) = 1
    /\ StatusNow \in {"NotStarted", "Paused", "Completed"} => rafQueue = {}

C19_Witness ==
    /\ StatusNow = "Running" /\ lastOp = "tick" /\ preStatus = "Running"
    /\ Cardinality(rafQueue) = 1 /\ RatLess(Num(0), stepProgress)

\* C20: while Running exactly one stage is active and stepProgress is
\* strictly below 100; a tick either leaves the stage unfinished, or advances
\* to the next stage with stepProgress 0 and elapsed 0, or completes the run.
C20_OneActiveBelowHundred ==
    [][ /\ StatusNext = "Running" =>
              /\ Cardinality({i \in 0..(totalSteps - 1) :
                                 stepStatus(CurNext, i) = "active"}) = 1
              /\ RatLess(stepProgress', Num(100))
        /\ lastOp' = "tick" =>
              \/ /\ StatusNext = "Running"
                 /\ currentStepIndex' = currentStepIndex
                 /\ RatLess(stepProgress', Num(100))
              \/ /\ StatusNext = "Running"
                 /\ currentStepIndex' = currentStepIndex + 1
                 /\ stepProgress' = Num(0) /\ elapsedRef' = 0
              \/ /\ StatusNext = "Completed"
                 /\ currentStepIndex' = totalSteps - 1
      ]_vars

C20_Witness ==
    /\ lastOp = "tick" /\ StatusNow = "Running"
    /\ currentStepIndex = 2 /\ stepProgress = Num(0) /\ elapsedRef = 0
    /\ stepStartRef = now

\* C15: for every sizeBytes >= 1 computePartCount returns a count with
\* 1 <= count <= S3_MAX_PARTS, whether or not the first count exceeded
\* S3_MAX_PARTS; for every sizeBytes in 1..8 MiB it returns 1.
C15_PartCountRange ==
    (query.fn = "computePartCount" /\ query.sizeBytes # << >>) =>
        /\ 1 <= query.count /\ query.count <= S3_MAX_PARTS
        /\ BigLeq(query.sizeBytes, BigOfInt(DefaultPartSize)) => query.count = 1
        /\ query.sizeBytes = BigOfInt(1024) => query.count = 1

C15_Witness ==
    /\ query.fn = "computePartCount"
    /\ MathCeilDiv(query.sizeBytes, DefaultPartSize) > S3_MAX_PARTS
    /\ query.partSize > DefaultPartSize
    /\ query.count <= S3_MAX_PARTS /\ query.count >= 1

\* C16: for every sizeBytes >= 1 the part size finally used (8 MiB, or
\* ceil(sizeBytes / S3_MAX_PARTS) when 8 MiB parts would be more than
\* S3_MAX_PARTS) times the returned count is at least sizeBytes; so it is for
\* a file of 20000 parts of 8 MiB.
C16_PlanCoversFile ==
    (query.fn = "computePartCount" /\ query.sizeBytes # << >>) =>
        /\ query.partSize =
              IF MathCeilDiv(query.sizeBytes, DefaultPartSize) > S3_MAX_PARTS
              THEN MathCeilDiv(query.sizeBytes, S3_MAX_PARTS)
              ELSE DefaultPartSize
        /\ BigLeq(query.sizeBytes,
                  BigMulAdd(BigOfInt(query.partSize), query.count, 0))

C16_Witness ==
    /\ query.fn = "computePartCount"
    /\ query.sizeBytes = BigMulAdd(BigOfInt(DefaultPartSize), 20000, 0)
    /\ query.partSize = 2 * DefaultPartSize /\ query.count = S3_MAX_PARTS

\* C18: once start() has been accepted, with frames run fairly at advancing
\* times, every pause() eventually followed by resume(), and no reset() or
\* file selection, the run eventually reaches Completed, its stages passed
\* in order (the index moves only by +1, made by a tick, until then).
C18_EventuallyCompleted ==
    /\ (StatusNow \in {"Running", "Paused"}) ~> (StatusNow = "Completed")
    /\ [][ (StatusNow \in {"Running", "Paused"} /\ currentStepIndex' # currentStepIndex)
              => (lastOp' = "tick" /\ currentStepIndex' = currentStepIndex + 1) ]_vars

\* While a run is Running its next frame is never beyond the clock's bound.
FrameWithinClock ==
    StatusNow = "Running" => \A d \in FrameDeltas : now + d <= MaxNowLive

\* C21: a zero-byte file is planned as a file of at least one byte:
\* computePartCount(0) returns a count >= 1, never 0 parts.
C21_ZeroByteClamped ==
    (query.fn = "computePartCount" /\ query.sizeBytes = BigOfInt(0)) =>
        query.count >= 1

\* C22: with start, pause, resume and reset invoked only through enabled
\* buttons, every reachable state has paused => processing, every pause()
\* was invoked in Running, every resume() in Paused, and every start() in
\* NotStarted or Completed.
C22_ButtonGatedInvariants ==
    /\ paused => processing
    /\ lastOp = "pause" => (preStatus = "Running" /\ StatusNow = "Paused")
    /\ lastOp = "resume" => (preStatus = "Paused" /\ StatusNow = "Running")
    /\ lastOp = "start" =>
          (preStatus \in {"NotStarted", "Completed"} /\ StatusNow = "Running")

C22_Witness ==
    /\ lastOp = "start" /\ preStatus = "Completed"
    /\ ~paused /\ processing /\ currentStepIndex = 0

\* C23: after any file selections and interleaved upload-initiation
\* responses, uploadInit and the error banner, when set, belong to the file
\* selected last, never to an earlier selection whose response arrived
\* later; and no response changes processing, paused, currentStepIndex or
\* stepProgress.
C23_UploadBelongsToLatestFile ==
    [][ /\ uploadInit' # 0 => uploadInit' = file'
        /\ errorMessage' # 0 => errorMessage' = file'
        /\ lastOp' \in {"uploadOk", "uploadFailed"} =>
              UNCHANGED << processing, paused, currentStepIndex, stepProgress >>
      ]_vars

\* C23, its second half: no response changes the pipeline state.
C23_ResponseLeavesPipeline ==
    [][ lastOp' \in {"uploadOk", "uploadFailed"} =>
            UNCHANGED << processing, paused, currentStepIndex, stepProgress >> ]_vars

====
